---- MODULE Spec2Model ----
(***************************************************************************)
(* A model of pyHTMLGenerator.py: the template object T (a tree node with  *)
(* a name, ordered attributes and ordered contents) and its renderer.      *)
(*                                                                         *)
(* Strings are sequences of tokens.  A token is one character (" ", "\n",  *)
(* a letter), one piece of markup written by the renderer ("<", "</", ">", *)
(* "=\"", "\""), an element name, or one placeholder of string.Template    *)
(* ("${k}").  Attribute names are sequences of characters, so that         *)
(* startswith('_') and rstrip('_') are computed, not looked up.            *)
(***************************************************************************)
EXTENDS Integers, Sequences, FiniteSets

VARIABLES heap,   \* the T objects: heap[i] is the object with identity i
          ret,    \* the call that ran last, its arguments and what it returned
          made,   \* history: made[n] = the children __getattr__ created on n, in order
          added,  \* history: added[n] = the attributes given to n, as given, in order
          rerun   \* history: how the last render relates to the call before it

vars == <<heap, ret, made, added, rerun>>

----------------------------------------------------------------------------
(* Bounds of the model *)

\* the size of a document: its objects, text entries and attributes together
MaxSize == 3

----------------------------------------------------------------------------
(* Strings *)

\* Python's None, as an element name and as an argument of __call__
None == "<None>"
NoArg == <<"<None>">>

\* TAB = "  "
TAB == <<" ", " ">>

IsSpace(c) == c \in {" ", "\n"}

\* TAB * level: the empty string when level <= 0
RECURSIVE Indent(_)
Indent(level) == IF level <= 0 THEN <<>> ELSE TAB \o Indent(level - 1)

RECURSIVE LStrip(_)
LStrip(s) ==
    IF s = <<>> THEN s
    ELSE IF IsSpace(Head(s)) THEN LStrip(Tail(s)) ELSE s

RECURSIVE RStrip(_)
RStrip(s) ==
    IF s = <<>> THEN s
    ELSE IF IsSpace(s[Len(s)]) THEN RStrip(SubSeq(s, 1, Len(s) - 1)) ELSE s

\* str.strip()
Strip(s) == LStrip(RStrip(s))

\* name.rstrip('_')
RECURSIVE RStripUnderscore(_)
RStripUnderscore(name) ==
    IF name = <<>> THEN name
    ELSE IF name[Len(name)] = "_"
         THEN RStripUnderscore(SubSeq(name, 1, Len(name) - 1))
         ELSE name

\* name.startswith('_')
StartsWithUnderscore(name) == Len(name) > 0 /\ name[1] = "_"

\* the placeholders of the model and the identifier each one names
Keys == {"k"}
Placeholders == {"${k}"}
KeyOf(tok) == IF tok = "${k}" THEN "k" ELSE "?"

\* a Template.safe_substitute in its place: an unknown identifier is left as
\* written
RECURSIVE SafeSubstitute(_, _)
SafeSubstitute(s, ns) ==
    IF s = <<>> THEN [err |-> FALSE, out |-> <<>>]
    ELSE LET rest == SafeSubstitute(Tail(s), ns)
             tok == Head(s)
         IN [err |-> FALSE,
             out |-> (IF tok \in Placeholders /\ KeyOf(tok) \in DOMAIN ns
                      THEN ns[KeyOf(tok)]
                      ELSE <<(IF tok = "$$" THEN "$" ELSE tok)>>) \o rest.out]

\* Template(s).substitute(namespace): every placeholder is replaced by the
\* value of its identifier, "$$" is an escaped "$", and a placeholder whose
\* identifier is no key of the namespace raises KeyError.
RECURSIVE Substitute(_, _)
Substitute(s, ns) ==
    IF s = <<>> THEN [err |-> FALSE, out |-> <<>>]
    ELSE LET rest == Substitute(Tail(s), ns)
             tok == Head(s)
         IN IF tok \in Placeholders
            THEN IF KeyOf(tok) \notin DOMAIN ns
                 THEN [err |-> TRUE, out |-> <<>>]
                 ELSE IF rest.err THEN rest
                      ELSE [err |-> FALSE, out |-> ns[KeyOf(tok)] \o rest.out]
            ELSE IF rest.err THEN rest
                 ELSE [err |-> FALSE,
                       out |-> <<(IF tok = "$$" THEN "$" ELSE tok)>> \o rest.out]

----------------------------------------------------------------------------
(* The T object *)

\* the entries of __contents
NoneItem == [kind |-> "none", id |-> 0, text |-> <<>>]
TextItem(s) == [kind |-> "text", id |-> 0, text |-> s]
NodeItem(i) == [kind |-> "node", id |-> i, text |-> <<>>]

\* T.__init__
NewNode(name) ==
    [name |-> name, multi_line |-> FALSE, contents |-> <<>>,
     attributes |-> <<>>, private |-> {}]

\* "if self.__name:" : None and the empty name are both false
IsNamed(name) == name # None /\ name # ""

\* the truth value of an argument of __call__
Truthy(v) == v # NoArg /\ v # <<>>

\* ' {0}="{1}"'.format(name, value) for every attribute, in list order
RECURSIVE AttrText(_)
AttrText(attrs) ==
    IF attrs = <<>> THEN <<>>
    ELSE <<" ">> \o Head(attrs)[1] \o <<"=\"">> \o Head(attrs)[2] \o <<"\"">>
         \o AttrText(Tail(attrs))

\* T.__open: the tag is built as one template and substituted as a whole
Open(node, level, ns) ==
    LET templ == Indent(level) \o <<"<", node.name>> \o AttrText(node.attributes)
                 \o <<">">> \o (IF node.multi_line THEN <<"\n">> ELSE <<>>)
    IN Substitute(templ, ns)

\* a closing tag that ends its line in multi-line mode only
CloseNoNewline(node, level) ==
    IF node.multi_line
    THEN <<"\n">> \o Indent(level) \o <<"</", node.name, ">", "\n">>
    ELSE <<"</", node.name, ">">>

\* T.__close
Close(node, level) ==
    IF node.multi_line
    THEN <<"\n">> \o Indent(level) \o <<"</", node.name, ">", "\n">>
    ELSE <<"</", node.name, ">", "\n">>

\* an insert at the head of the list in place of the append
AppendAttributeFirst(attrs, name, value) == <<<<RStripUnderscore(name), value>>>> \o attrs

\* self.__attributes.append((name.rstrip('_'), value))
AppendAttribute(attrs, name, value) == Append(attrs, <<RStripUnderscore(name), value>>)

\* a child rendered at the level of its parent
ChildLevelSame(level) == level

\* the level a child is rendered at: level + 1
ChildLevel(level) == level + 1

\* the flag kept on the class, not on the object: set for every object
MarkAll(h, n) == [m \in DOMAIN h |-> [h[m] EXCEPT !.multi_line = TRUE]]

\* the loop of T._render over one entry whose type is T: the flag is set
\* before the child is rendered
MarkMultiLine(h, n) == [h EXCEPT ![n].multi_line = TRUE]

\* the flag read before the loop has run
ModeBeforeLoop(before, after, n) == before[n].multi_line

\* which flag decides between strip() and rstrip(): the one the loop left
ModeAfterLoop(before, after, n) == after[n].multi_line

\* strip() in both modes, and rstrip() in both modes
TrimBoth(multi, txt) == Strip(txt)
TrimRight(multi, txt) == RStrip(txt)

\* the text of the contents once joined
Trim(multi, txt) == IF multi THEN RStrip(txt) ELSE Strip(txt)

RECURSIVE RenderNode(_, _, _, _), RenderItems(_, _, _, _, _)

\* T._render, lines 79-86: the entries of node n from the i-th on.  The
\* result carries the heap, for the flags the traversal sets; an exception
\* (err) abandons the rest of the loop and keeps the flags set so far.
RenderItems(h, n, i, level, ns) ==
    IF i > Len(h[n].contents) THEN [err |-> FALSE, out |-> <<>>, h |-> h]
    ELSE LET item == h[n].contents[i]
         IN CASE item.kind = "none" -> RenderItems(h, n, i + 1, level, ns)
              [] item.kind = "node" ->
                   LET c == RenderNode(MarkMultiLine(h, n), item.id, ChildLevel(level), ns)
                   IN IF c.err THEN c
                      ELSE LET rest == RenderItems(c.h, n, i + 1, level, ns)
                           IN IF rest.err THEN rest
                              ELSE [err |-> FALSE, out |-> c.out \o rest.out,
                                    h |-> rest.h]
              [] OTHER ->
                   LET s == Substitute(item.text, ns)
                   IN IF s.err THEN [err |-> TRUE, out |-> <<>>, h |-> h]
                      ELSE LET rest == RenderItems(h, n, i + 1, level, ns)
                           IN IF rest.err THEN rest
                              ELSE [err |-> FALSE,
                                    out |-> Indent(level) \o s.out \o rest.out,
                                    h |-> rest.h]

\* T._render
RenderNode(h, n, level, ns) ==
    LET r == RenderItems(h, n, 1, level, ns)
    IN IF r.err THEN r
       ELSE LET txt_contents == Trim(ModeAfterLoop(h, r.h, n), r.out)
                node == r.h[n]
            IN IF IsNamed(node.name)
               THEN LET o == Open(node, level, ns)
                    IN IF o.err THEN [err |-> TRUE, out |-> <<>>, h |-> r.h]
                       ELSE [err |-> FALSE,
                             out |-> o.out \o txt_contents \o Close(node, level),
                             h |-> r.h]
               ELSE [err |-> FALSE, out |-> txt_contents, h |-> r.h]

----------------------------------------------------------------------------
(* The tree as a whole *)

Nodes == 1..Len(heap)

ChildIds(h, n) ==
    {h[n].contents[i].id : i \in {j \in 1..Len(h[n].contents) : h[n].contents[j].kind = "node"}}

HasNodeChild(h, n) == ChildIds(h, n) # {}

\* the nodes of the subtree of n, n included
RECURSIVE Reach(_, _, _)
Reach(h, frontier, seen) ==
    IF frontier = {} THEN seen
    ELSE LET next == (UNION {ChildIds(h, m) : m \in frontier}) \ seen
         IN Reach(h, next, seen \cup next)

Subtree(h, n) == Reach(h, {n}, {n})

IsRoot(h, n) == \A m \in 1..Len(h) : n \notin ChildIds(h, m)

NumItems(h, n) == Cardinality({i \in 1..Len(h[n].contents) : h[n].contents[i].kind # "node"})

NumAttrs(h, n) == Len(h[n].attributes)

\* the entries and attributes of the objects 1..n together
RECURSIVE SizeUpTo(_, _)
SizeUpTo(h, n) ==
    IF n = 0 THEN 0 ELSE NumItems(h, n) + NumAttrs(h, n) + SizeUpTo(h, n - 1)
Size(h) == Len(h) + SizeUpTo(h, Len(h))

----------------------------------------------------------------------------
(* What a call leaves in ret *)

NoCall ==
    [op |-> "init", self |-> 0, node |-> 0, name |-> None, level |-> 0,
     ns |-> <<>>, err |-> FALSE, out |-> <<>>, a1 |-> NoArg, a2 |-> NoArg]

----------------------------------------------------------------------------
(* The operations *)

\* T(name)
New(name) ==
    /\ heap' = Append(heap, NewNode(name))
    /\ ret' = [NoCall EXCEPT !.op = "new", !.node = Len(heap) + 1]
    /\ made' = Append(made, <<>>)
    /\ added' = Append(added, <<>>)
    /\ rerun' = "no"

\* T.__lt__: self < other, other a string or None
LtText(n, item) ==
    /\ heap' = [heap EXCEPT ![n].contents = Append(@, item)]
    /\ ret' = [NoCall EXCEPT !.op = "lt", !.node = n]
    /\ rerun' = "no"
    /\ UNCHANGED <<made, added>>

\* T.__lt__: self < other, other a T
LtNode(n, m) ==
    /\ heap' = [heap EXCEPT ![n].contents = Append(@, NodeItem(m))]
    /\ ret' = [NoCall EXCEPT !.op = "lt", !.node = n]
    /\ rerun' = "no"
    /\ UNCHANGED <<made, added>>

\* a __getattr__ that remembers: a second reference to a name returns the
\* child the first one made
GetAttrMemo(n, name) ==
    LET old == {i \in 1..Len(made[n]) : heap[made[n][i]].name = name}
        t == Len(heap) + 1
    IN IF old # {}
       THEN /\ ret' = [NoCall EXCEPT !.op = "getattr", !.self = n,
                                     !.node = made[n][CHOOSE i \in old : TRUE],
                                     !.name = name]
            /\ rerun' = "no"
            /\ UNCHANGED <<heap, made, added>>
       ELSE /\ heap' = [Append(heap, NewNode(name)) EXCEPT ![n].contents = Append(@, NodeItem(t))]
            /\ ret' = [NoCall EXCEPT !.op = "getattr", !.self = n, !.node = t, !.name = name]
            /\ made' = [Append(made, <<>>) EXCEPT ![n] = Append(@, t)]
            /\ added' = Append(added, <<>>)
            /\ rerun' = "no"

\* T.__getattr__: runs when the name is no attribute of the object (the names
\* the '_' branch of __setattr__ stores all start with '_')
GetAttr(n, name) ==
    LET t == Len(heap) + 1
    IN /\ heap' = [Append(heap, NewNode(name)) EXCEPT ![n].contents = Append(@, NodeItem(t))]
       /\ ret' = [NoCall EXCEPT !.op = "getattr", !.self = n, !.node = t, !.name = name]
       /\ made' = [Append(made, <<>>) EXCEPT ![n] = Append(@, t)]
       /\ added' = Append(added, <<>>)
       /\ rerun' = "no"

\* the effect of T.__setattr__ on the object
SetAttribute(node, name, value) ==
    IF StartsWithUnderscore(name)
    THEN [node EXCEPT !.private = @ \cup {name}]
    ELSE [node EXCEPT !.attributes = AppendAttribute(@, name, value)]

\* T.__setattr__: self.name = value
SetAttr(n, name, value) ==
    /\ heap' = [heap EXCEPT ![n] = SetAttribute(@, name, value)]
    /\ ret' = [NoCall EXCEPT !.op = "setattr"]
    /\ added' = IF StartsWithUnderscore(name) THEN added
                ELSE [added EXCEPT ![n] = Append(@, <<name, value>>)]
    /\ rerun' = "no"
    /\ UNCHANGED made

\* T._set
Set(n, name, value) ==
    /\ heap' = [heap EXCEPT ![n].attributes = AppendAttribute(@, name, value)]
    /\ ret' = [NoCall EXCEPT !.op = "set"]
    /\ added' = [added EXCEPT ![n] = Append(@, <<name, value>>)]
    /\ rerun' = "no"
    /\ UNCHANGED made

\* the tests "if _class:" and "if _id:" of T.__call__
ClassGiven(_class) == Truthy(_class)
IdGiven(_id) == Truthy(_id)

\* the id set before the class
CallEffectIdFirst(node, _class, _id) ==
    LET n1 == IF IdGiven(_id) THEN SetAttribute(node, <<"i", "d">>, _id) ELSE node
    IN IF ClassGiven(_class)
       THEN [n1 EXCEPT !.attributes = Append(@, <<<<"c", "l", "a", "s", "s">>, _class>>)]
       ELSE n1

\* the effect of T.__call__ on the object
CallEffect(node, _class, _id) ==
    LET n1 == IF ClassGiven(_class)
              THEN [node EXCEPT !.attributes = Append(@, <<<<"c", "l", "a", "s", "s">>, _class>>)]
              ELSE node
    IN IF IdGiven(_id) THEN SetAttribute(n1, <<"i", "d">>, _id) ELSE n1

\* T.__call__: self(_class, _id)
Call(n, _class, _id) ==
    /\ heap' = [heap EXCEPT ![n] = CallEffect(@, _class, _id)]
    /\ ret' = [NoCall EXCEPT !.op = "call", !.self = n, !.node = n,
                             !.a1 = _class, !.a2 = _id]
    /\ added' = [added EXCEPT ![n] =
                    @ \o (IF Truthy(_class) THEN <<<< <<"c", "l", "a", "s", "s">>, _class>>>> ELSE <<>>)
                      \o (IF Truthy(_id) THEN <<<< <<"i", "d">>, _id>>>> ELSE <<>>)]
    /\ rerun' = "no"
    /\ UNCHANGED made

\* T._render(level, **namespace), called from outside
Render(n, level, ns) ==
    LET r == RenderNode(heap, n, level, ns)
    IN /\ heap' = r.h
       /\ ret' = [NoCall EXCEPT !.op = "render", !.self = n, !.level = level,
                                !.ns = ns, !.err = r.err, !.out = r.out]
       /\ rerun' = IF ret.op = "render" /\ ret.self = n /\ ret.err THEN "after_abort"
                   ELSE IF ret.op = "render" /\ ret.self = n /\ ret.level = level
                           /\ ret.ns = ns
                        THEN "same" ELSE "no"
       /\ UNCHANGED <<made, added>>

----------------------------------------------------------------------------
(* The callers: which arguments the model tries *)

CtorNames == {None, "p"}
ChildNames == {"p", "li"}
Texts == {<<"${k}">>, <<" ", "u", "\n">>}
Values == {<<" ", "Clio">>}
Namespaces == {<<>>} \cup {[key \in Keys |-> v] : v \in Values}
Levels == {-1, 0, 1}

Init ==
    /\ \E name \in CtorNames : heap = <<NewNode(name)>>
    /\ ret = NoCall
    /\ made = <<<<>>>>
    /\ added = <<<<>>>>
    /\ rerun = "no"

\* Building a document: elements, text, and one placeholder attribute.  An
\* object is appended to another only while it is the root of a tree of its
\* own, so the contents stay a tree (no object has two parents, none contains
\* itself); _render is called on roots, a subtree being rendered as the same
\* tree built on its own is.
Next ==
    \/ Size(heap) < MaxSize /\ New(None)
    \/ Size(heap) < MaxSize /\ \E n \in Nodes, name \in ChildNames : GetAttr(n, name)
    \/ Size(heap) < MaxSize
         /\ \E n \in Nodes, item \in {TextItem(s) : s \in Texts} \cup {NoneItem} : LtText(n, item)
    \/ \E n, m \in Nodes :
         /\ IsRoot(heap, m)
         /\ m \notin Subtree(heap, n)
         /\ n \notin Subtree(heap, m)
         /\ LtNode(n, m)
    \/ Size(heap) < MaxSize
         /\ \E n \in Nodes : SetAttr(n, <<"a", "_">>, <<"${k}">>)
    \/ \E n \in Nodes, level \in Levels, ns \in Namespaces :
         IsRoot(heap, n) /\ Render(n, level, ns)

Spec == Init /\ [][Next]_vars

\* Giving attributes to one or two elements with __setattr__ (a name that ends
\* in '_', a plain one, and one that starts with '_'), _set and __call__.
AttrNames == {<<"a", "_">>, <<"b">>, <<"_", "x">>}
AttrValues == {<<"v">>, <<"${k}">>}
Args == {NoArg, <<>>, <<"c">>}
AttrLevels == {-1, 1}

NextAttr ==
    \/ Len(heap) < 2 /\ GetAttr(1, "li")
    \/ Size(heap) < MaxSize
         /\ \E n \in Nodes, name \in AttrNames, value \in AttrValues : SetAttr(n, name, value)
    \/ Size(heap) < MaxSize
         /\ \E n \in Nodes : Set(n, <<"b", "_", "_">>, <<"v">>)
    \/ \E n \in Nodes, _class \in Args, _id \in Args :
         /\ Size(heap) + Cardinality({i \in 1..2 : Truthy(<<_class, _id>>[i])}) <= MaxSize
         /\ Call(n, _class, _id)
    \/ \E n \in Nodes, level \in AttrLevels, ns \in Namespaces : Render(n, level, ns)

SpecAttr == Init /\ [][NextAttr]_vars

----------------------------------------------------------------------------
(* Reading a rendered string *)

Indexes(out) == [i \in 1..Len(out) |-> i]

\* the positions of a token in a string, in order
PositionsOf(out, tok) == SelectSeq(Indexes(out), LAMBDA i : out[i] = tok)

CountOf(out, tok) == Len(PositionsOf(out, tok))

\* the number of spaces a string has from position i on
RECURSIVE SpacesFrom(_, _)
SpacesFrom(out, i) ==
    IF i > Len(out) \/ out[i] # " " THEN 0 ELSE 1 + SpacesFrom(out, i + 1)

\* position i starts a line
LineStart(out, i) == i = 1 \/ out[i - 1] = "\n"

\* the positions, in order, of the tokens that start a line after exactly
\* `width` spaces, the first line left out when skipFirst
LinesAt(out, width, skipFirst) ==
    SelectSeq(Indexes(out),
              LAMBDA i : /\ i > width
                         /\ LineStart(out, i - width)
                         /\ SpacesFrom(out, i - width) = width
                         /\ ~IsSpace(out[i])
                         /\ (skipFirst => i - width > 1))

\* the string without its whitespace
NonSpace(s) == SelectSeq(s, LAMBDA c : ~IsSpace(c))

Max(a, b) == IF a >= b THEN a ELSE b

\* the result of the render in ret
Rendered == ret.op = "render"
RenderedOk == ret.op = "render" /\ ~ret.err

\* the entries of a node that are not None, and those that are elements
Pieces(h, n) == SelectSeq(h[n].contents, LAMBDA it : it.kind # "none")
ElementChildren(h, n) == SelectSeq(h[n].contents, LAMBDA it : it.kind = "node")
TextChildren(h, n) == SelectSeq(h[n].contents, LAMBDA it : it.kind = "text")

ChildNamesOf(h, n) ==
    [i \in 1..Len(ElementChildren(h, n)) |-> h[ElementChildren(h, n)[i].id].name]

\* the names of the named elements of a subtree, in document order
RECURSIVE NamesOf(_, _), NamesFrom(_, _, _)
NamesFrom(h, n, i) ==
    IF i > Len(h[n].contents) THEN <<>>
    ELSE (IF h[n].contents[i].kind = "node" THEN NamesOf(h, h[n].contents[i].id) ELSE <<>>)
         \o NamesFrom(h, n, i + 1)
NamesOf(h, n) ==
    (IF IsNamed(h[n].name) THEN <<h[n].name>> ELSE <<>>) \o NamesFrom(h, n, 1)

\* the names that follow the "<" of the opening tags of a string
OpenNames(out) ==
    [j \in 1..CountOf(out, "<") |-> out[PositionsOf(out, "<")[j] + 1]]

\* the substituted texts of the text entries of a node, concatenated
RECURSIVE JoinTexts(_, _)
JoinTexts(items, ns) ==
    IF items = <<>> THEN <<>>
    ELSE Substitute(Head(items).text, ns).out \o JoinTexts(Tail(items), ns)

----------------------------------------------------------------------------
(* C1 *)

C1_Case == RenderedOk /\ IsNamed(heap[ret.self].name) /\ HasNodeChild(heap, ret.self)

C1_OpenThenNewline ==
    LET out == ret.out
        w == 2 * Max(ret.level, 0)
        gt == PositionsOf(out, ">")[1]
    IN /\ SpacesFrom(out, 1) = w
       /\ out[w + 1] = "<"
       /\ out[w + 2] = heap[ret.self].name
       /\ out[gt + 1] = "\n"

\* C1 as stated: a named node with an element child renders its opening tag,
\* a newline, and then every piece of its contents (text and element alike,
\* at every level, -1 included) on a line of its own, one indentation unit
\* deeper than the opening tag.
C1_AsStated ==
    C1_Case =>
        /\ C1_OpenThenNewline
        /\ LET deeper == LinesAt(ret.out, SpacesFrom(ret.out, 1) + 2, TRUE)
               pieces == SelectSeq(deeper, LAMBDA i : ret.out[i] # "</")
           IN Len(pieces) = Len(Pieces(heap, ret.self))

\* C1, amended: a named node with an element child renders its opening tag
\* followed at once by a newline; and when it is rendered at a level >= 0 and
\* all its entries other than None are named elements, every child starts a
\* line of its own, indented exactly one unit deeper than the opening tag.
C1_ElementChildrenIndented ==
    C1_Case =>
        /\ C1_OpenThenNewline
        /\ (/\ ret.level >= 0
            /\ \A i \in 1..Len(Pieces(heap, ret.self)) :
                 /\ Pieces(heap, ret.self)[i].kind = "node"
                 /\ IsNamed(heap[Pieces(heap, ret.self)[i].id].name))
           => LET lines == LinesAt(ret.out, 2 * (ret.level + 1), TRUE)
                  tags == SelectSeq(lines, LAMBDA i : ret.out[i] = "<")
              IN /\ Len(tags) = Len(ElementChildren(heap, ret.self))
                 /\ \A j \in 1..Len(tags) :
                      ret.out[tags[j] + 1] = ChildNamesOf(heap, ret.self)[j]

C1_Witness ==
    /\ C1_Case
    /\ ret.level = 1
    /\ Len(Pieces(heap, ret.self)) = 2
    /\ ChildNamesOf(heap, ret.self) = <<"li", "p">>

----------------------------------------------------------------------------
(* C2 *)

C2_Case ==
    /\ Rendered
    /\ ~IsNamed(heap[ret.self].name)
    /\ Len(Pieces(heap, ret.self)) = 1
    /\ Pieces(heap, ret.self)[1].kind = "node"
    /\ IsNamed(heap[Pieces(heap, ret.self)[1].id].name)

C2_Child == RenderNode(heap, Pieces(heap, ret.self)[1].id, ret.level + 1, ret.ns)

\* C2 as stated: an anonymous root whose only child is a named element
\* renders, at level L, exactly the string the child renders at level L + 1.
C2_AsStated ==
    C2_Case => (ret.err = C2_Child.err /\ ret.out = C2_Child.out)

\* C2, amended: an anonymous root whose only child is a named element
\* renders, at level L, the string the child renders at level L + 1 without
\* its final newline (and fails when the child fails): no wrapping tag, the
\* leading indentation kept, the trailing whitespace removed.
C2_ChildWithoutFinalNewline ==
    C2_Case =>
        /\ ret.err = C2_Child.err
        /\ ~ret.err => ret.out \o <<"\n">> = C2_Child.out

C2_Witness ==
    /\ C2_Case
    /\ ~ret.err
    /\ ret.level = 1
    /\ heap[Pieces(heap, ret.self)[1].id].contents # <<>>

----------------------------------------------------------------------------
(* C3 *)

HasMissing(s, ns) == \E i \in 1..Len(s) : s[i] \in Placeholders /\ KeyOf(s[i]) \notin DOMAIN ns

NumPlaceholders(s) == Len(SelectSeq(s, LAMBDA c : c \in Placeholders))

TextMissing(h, m, ns) ==
    \E i \in 1..Len(h[m].contents) :
        h[m].contents[i].kind = "text" /\ HasMissing(h[m].contents[i].text, ns)

AttrMissing(h, m, ns) ==
    \E i \in 1..Len(h[m].attributes) : HasMissing(h[m].attributes[i][2], ns)

\* the placeholders of the texts of a sequence of entries, and of the values
\* of a sequence of attributes
RECURSIVE PlaceholdersInTexts(_)
PlaceholdersInTexts(items) ==
    IF items = <<>> THEN 0
    ELSE NumPlaceholders(Head(items).text) + PlaceholdersInTexts(Tail(items))

RECURSIVE PlaceholdersInValues(_)
PlaceholdersInValues(attrs) ==
    IF attrs = <<>> THEN 0
    ELSE NumPlaceholders(Head(attrs)[2]) + PlaceholdersInValues(Tail(attrs))

\* the placeholders a render of node m substitutes: in its texts, and in its
\* attribute values when it has an opening tag
PlaceholdersAt(h, m) ==
    PlaceholdersInTexts(TextChildren(h, m))
    + (IF IsNamed(h[m].name) THEN PlaceholdersInValues(h[m].attributes) ELSE 0)

RECURSIVE PlaceholdersIn(_, _)
PlaceholdersIn(h, S) ==
    IF S = {} THEN 0
    ELSE LET x == CHOOSE y \in S : TRUE
         IN PlaceholdersAt(h, x) + PlaceholdersIn(h, S \ {x})

C3_Substituted ==
    ~ret.err =>
        /\ \A i \in 1..Len(ret.out) : ret.out[i] \notin Placeholders
        /\ "k" \in DOMAIN ret.ns =>
             CountOf(ret.out, "Clio")
               = PlaceholdersIn(heap, Subtree(heap, ret.self))

\* C3 as stated: render fails exactly when a placeholder of a text child or of
\* an attribute value, anywhere in the subtree, names no key of the
\* namespace; a failed render returns nothing; a successful one has every
\* placeholder replaced by the value of the namespace.
C3_AsStated ==
    Rendered =>
        /\ ret.err <=> \E m \in Subtree(heap, ret.self) :
                          TextMissing(heap, m, ret.ns) \/ AttrMissing(heap, m, ret.ns)
        /\ ret.err => ret.out = <<>>
        /\ C3_Substituted

\* C3, amended: as stated, the attribute values being those of the named
\* nodes only: an anonymous node renders no opening tag, and a placeholder in
\* one of its attribute values is never looked up.
C3_MissingVariable ==
    Rendered =>
        /\ ret.err <=> \E m \in Subtree(heap, ret.self) :
                          \/ TextMissing(heap, m, ret.ns)
                          \/ IsNamed(heap[m].name) /\ AttrMissing(heap, m, ret.ns)
        /\ ret.err => ret.out = <<>>
        /\ C3_Substituted

C3_Witness ==
    /\ RenderedOk
    /\ \E m \in Subtree(heap, ret.self) \ {ret.self} :
         /\ TextChildren(heap, m) # <<>>
         /\ NumPlaceholders(TextChildren(heap, m)[1].text) > 0
    /\ CountOf(ret.out, "Clio") = 1

----------------------------------------------------------------------------
(* C4 *)

IsSubsequence(a, b) ==
    \E f \in [1..Len(a) -> 1..Len(b)] :
        /\ \A i \in 1..Len(a) : b[f[i]] = a[i]
        /\ \A i, j \in 1..Len(a) : i < j => f[i] < f[j]

ChildIdSeq(h, n) == [i \in 1..Len(ElementChildren(h, n)) |-> ElementChildren(h, n)[i].id]

\* a reference appends one new object of that name, last, and returns it
C4_Step ==
    ret'.op = "getattr" =>
        LET n == ret'.self
            t == ret'.node
        IN /\ t \notin DOMAIN heap
           /\ DOMAIN heap' = DOMAIN heap \cup {t}
           /\ heap'[t] = NewNode(ret'.name)
           /\ heap'[n] = [heap[n] EXCEPT !.contents = Append(@, NodeItem(t))]
           /\ \A m \in DOMAIN heap \ {n} : heap'[m] = heap[m]

\* the children made by reference are all there, distinct, in reference
\* order; a render shows one opening tag per named element, in document order
C4_Kept ==
    /\ \A n \in Nodes :
         /\ IsSubsequence(made[n], ChildIdSeq(heap, n))
         /\ \A i, j \in 1..Len(made[n]) : i # j => made[n][i] # made[n][j]
    /\ RenderedOk => OpenNames(ret.out) = NamesOf(heap, ret.self)

\* C4: every reference to an undefined name appends exactly one fresh
\* element of that name at the end of the node's children and returns it,
\* never an earlier one; the children so made stay distinct and in reference
\* order, and render emits each of them, in that order.
C4_FreshChildPerReference == [][C4_Step /\ C4_Kept']_vars

C4_Witness ==
    /\ RenderedOk
    /\ Len(made[ret.self]) = 2
    /\ heap[made[ret.self][1]].name = heap[made[ret.self][2]].name
    /\ CountOf(ret.out, "<") = 2 + (IF IsNamed(heap[ret.self].name) THEN 1 ELSE 0)

----------------------------------------------------------------------------
(* C5 *)

\* the attributes as they were given, written as an opening tag writes them
RECURSIVE GivenAttrText(_, _)
GivenAttrText(given, ns) ==
    IF given = <<>> THEN <<>>
    ELSE <<" ">> \o RStripUnderscore(Head(given)[1]) \o <<"=\"">>
         \o Substitute(Head(given)[2], ns).out \o <<"\"">>
         \o GivenAttrText(Tail(given), ns)

C5_Case == RenderedOk /\ IsNamed(heap[ret.self].name)

\* C5: the opening tag shows the attributes of the node in the order they
\* were added by __setattr__, _set and __call__, duplicates of a name
\* included: none dropped, merged or moved.
C5_AttributesInOrderAdded ==
    C5_Case =>
        LET tag == Indent(ret.level) \o <<"<", heap[ret.self].name>>
                   \o GivenAttrText(added[ret.self], ret.ns) \o <<">">>
        IN /\ Len(ret.out) >= Len(tag)
           /\ SubSeq(ret.out, 1, Len(tag)) = tag

C5_Witness ==
    /\ C5_Case
    /\ Len(added[ret.self]) = 2
    /\ added[ret.self][1][1] = <<"b", "_", "_">>
    /\ added[ret.self][2][1] = <<"c", "l", "a", "s", "s">>

----------------------------------------------------------------------------
(* C6 *)

C6_Case == RenderedOk /\ IsNamed(heap[ret.self].name) /\ ~HasNodeChild(heap, ret.self)

----------------------------------------------------------------------------
(* C7 *)

EveryClosingTagEndsLine(out) ==
    \A i \in 1..Len(out) : out[i] = "</" => (i + 3 <= Len(out) /\ out[i + 3] = "\n")

\* the closing tag of the rendered node itself
C7_OwnClosingTag ==
    IsNamed(heap[ret.self].name) =>
        LET out == ret.out
            close == <<"</", heap[ret.self].name, ">", "\n">>
            lt == Len(out) - 3
        IN /\ lt >= 1
           /\ SubSeq(out, lt, Len(out)) = close
           /\ IF HasNodeChild(heap, ret.self)
              THEN LET pre == <<"\n">> \o Indent(ret.level)
                   IN /\ lt > Len(pre)
                      /\ SubSeq(out, lt - Len(pre), lt - 1) = pre
              ELSE ~IsSpace(out[lt - 1])

\* C7 as stated: every closing tag in the string a render returns is
\* followed by a newline, whatever the tree, anonymous nodes included.
C7_AsStated ==
    RenderedOk => (C7_OwnClosingTag /\ EveryClosingTagEndsLine(ret.out))

\* C7, amended: a named node ends its rendering with its closing tag and a
\* newline (after a newline and its indentation in multi-line mode only);
\* and in the string a render of a tree of named nodes returns, every
\* closing tag is followed by a newline.
C7_ClosingTagsEndLine ==
    RenderedOk =>
        /\ C7_OwnClosingTag
        /\ (\A m \in Subtree(heap, ret.self) : IsNamed(heap[m].name))
             => EveryClosingTagEndsLine(ret.out)

C7_Witness ==
    /\ RenderedOk
    /\ \A m \in Subtree(heap, ret.self) : IsNamed(heap[m].name)
    /\ ret.level = 1
    /\ CountOf(ret.out, "</") = 3
    /\ \E m \in ChildIds(heap, ret.self) : HasNodeChild(heap, m)

----------------------------------------------------------------------------
(* C8 *)

Class == <<"c", "l", "a", "s", "s">>
Id == <<"i", "d">>

\* a call step appends the class and then the id, each when `given` says so
C8_Effect(given) ==
    ret'.op = "call" =>
        LET n == ret'.self
            new == (IF ret'.a1 \in given THEN <<<<Class, ret'.a1>>>> ELSE <<>>)
                   \o (IF ret'.a2 \in given THEN <<<<Id, ret'.a2>>>> ELSE <<>>)
        IN /\ heap' = [heap EXCEPT ![n].attributes = @ \o new]
           /\ ret'.node = n

\* C8 as stated: __call__ appends ("class", _class) when _class is given and
\* then ("id", _id) when _id is given, whatever the string (the empty one
\* included), nothing for an argument not given, changes nothing else and
\* returns the node.
C8_AsStated == [][C8_Effect(Args \ {NoArg})]_vars

\* C8, amended: __call__ appends ("class", _class) when _class is given and
\* not the empty string, then ("id", _id) when _id is given and not the empty
\* string; nothing for an argument that is not given or empty; it changes
\* nothing else and returns the node.
C8_CallAppendsClassThenId == [][C8_Effect(Args \ {NoArg, <<>>})]_vars

C8_Witness ==
    /\ ret.op = "call"
    /\ ret.a1 = <<>>
    /\ ret.a2 = <<"c">>
    /\ heap[ret.self].attributes = <<<<<<"b">>, <<"v">>>>, <<Id, <<"c">>>>>>

----------------------------------------------------------------------------
(* C9 *)

\* C9: a render, whether it returns or fails, leaves every node's name,
\* contents and attributes as they were; it changes multi_line only from
\* false to true, and only on a node that has an element child.
C9_RenderKeepsStructure ==
    [][ret'.op = "render" =>
          /\ DOMAIN heap' = DOMAIN heap
          /\ \A m \in DOMAIN heap :
               /\ heap'[m].name = heap[m].name
               /\ heap'[m].contents = heap[m].contents
               /\ heap'[m].attributes = heap[m].attributes
               /\ heap'[m].private = heap[m].private
               /\ heap[m].multi_line => heap'[m].multi_line
               /\ heap'[m].multi_line # heap[m].multi_line => HasNodeChild(heap, m)]_vars

C9_Witness ==
    /\ Rendered
    /\ ret.err
    /\ heap[ret.self].multi_line
    /\ \E m \in ChildIds(heap, ret.self) : ~heap[m].multi_line

----------------------------------------------------------------------------
(* C10 *)

ClearFlags(h) == [m \in DOMAIN h |-> [h[m] EXCEPT !.multi_line = FALSE]]

\* C10: what a render returns depends on the names, attributes and contents
\* of the tree and on the namespace, never on the flags earlier renders left
\* (renders that failed midway included): it is what a tree with all flags
\* clear returns, and the same call repeated on the unmodified tree returns
\* the same.
C10_RenderRepeatable ==
    [][ret'.op = "render" =>
          LET clean == RenderNode(ClearFlags(heap), ret'.self, ret'.level, ret'.ns)
          IN /\ ret'.err = clean.err
             /\ ret'.out = clean.out
             /\ (ret.op = "render" /\ ret.self = ret'.self /\ ret.level = ret'.level
                 /\ ret.ns = ret'.ns)
                => (ret'.err = ret.err /\ ret'.out = ret.out)]_vars

C10_Witness ==
    /\ RenderedOk
    /\ rerun = "after_abort"
    /\ ret.level = 1
    /\ HasNodeChild(heap, ret.self)
    /\ \E m \in ChildIds(heap, ret.self) : heap[m].contents # <<>>

====
